---------------------------- MODULE Spec2Model ----------------------------
(***************************************************************************)
(* Whale Watch Bot (src/main.py): the snapshot aggregator                  *)
(* fetch_dashboard_overview, the insight derivation of insight_cmd, the    *)
(* alert evaluation and dispatch of check_and_send_alert, and the          *)
(* interval job that main() schedules.                                     *)
(*                                                                         *)
(* Python values are tagged records: None (also a failed GET and a JSON    *)
(* null), str, number, bool, dict and list.  A number is sign, whole part  *)
(* and hundredths, so that 39,365,167.96 and the 50,000,000 thresholds are *)
(* exact.  Strings are ASCII: the emoji and arrow glyphs of the message    *)
(* literals are left out or written "->" and "-".                          *)
(*                                                                         *)
(* requests.get blocks its thread: every response of a fetch is a step of  *)
(* its own, and the job's worker thread, the handler and the upstream move *)
(* between the steps.  What follows the last response up to the next wait  *)
(* (the evaluation and the send_message call of the job, the derivation    *)
(* and the reply_text call of the handler) belongs to that last step.      *)
(***************************************************************************)
EXTENDS Integers, Sequences, FiniteSets, TLC

VARIABLES
    DASHBOARD_API_URL,  \* os.getenv("DASHBOARD_API_URL"): None or a str
    API_KEY,            \* os.getenv("API_KEY"): None or a str
    ADMIN_CHAT_ID,      \* os.getenv("ADMIN_CHAT_ID"): None or a str
    started,            \* main() has registered the handlers and started the scheduler
    upstream,           \* what a GET of each of the four paths returns now (None: it fails)
    clock,              \* datetime.utcnow(), in seconds since the epoch
    jobs,               \* the scheduler's executor: worker -> the job instance it runs
    handler,            \* the insight_cmd coroutine the application is running
    lastCycle,          \* the outcome of the last finished run of check_and_send_alert
    reply,              \* the outcome of the last insight_cmd
    prevReply           \* the outcome of the insight_cmd before it

vars == <<DASHBOARD_API_URL, API_KEY, ADMIN_CHAT_ID, started, upstream, clock,
          jobs, handler, lastCycle, reply, prevReply>>

config == <<DASHBOARD_API_URL, API_KEY, ADMIN_CHAT_ID>>

-----------------------------------------------------------------------------
(* Python values *)

None == [t |-> "none"]

Str(s) == [t |-> "str", s |-> s]

Bool(b) == [t |-> "bool", b |-> b]

\* sg * (w + c/100), sg in {1, -1}, w >= 0, c in 0..99; an int when c = 0, else a float
Num(sg, w, c) == [t |-> "num", sg |-> sg, w |-> w, c |-> c]

IntNum(n) == IF n < 0 THEN Num(-1, -n, 0) ELSE Num(1, n, 0)

Dict(d) == [t |-> "dict", d |-> d]

List(l) == [t |-> "list", l |-> l]

EmptyDict == Dict([k \in {} |-> None])

IsDict(v) == v.t = "dict"

IsList(v) == v.t = "list"

\* bool(v): None, "", 0, False, {} and [] are falsy
Truthy(v) ==
    CASE v.t = "none" -> FALSE
      [] v.t = "str"  -> v.s # ""
      [] v.t = "bool" -> v.b
      [] v.t = "num"  -> v.w # 0 \/ v.c # 0
      [] v.t = "dict" -> DOMAIN v.d # {}
      [] v.t = "list" -> Len(v.l) > 0

\* a or b
Or(a, b) == IF Truthy(a) THEN a ELSE b

\* d.get(k, default) on a dict
Get(v, k, default) == IF k \in DOMAIN v.d THEN v.d[k] ELSE default

\* isinstance(v, (int, float)): bool is a subclass of int
IsNumber(v) == v.t \in {"num", "bool"}

\* the number a numeric value compares and formats as (True is 1, False is 0)
AsNum(v) == IF v.t = "bool" THEN Num(1, IF v.b THEN 1 ELSE 0, 0) ELSE v

\* floor and hundredths above the floor, for comparisons
Floor(n) == IF n.sg = 1 THEN n.w ELSE IF n.c = 0 THEN -n.w ELSE -n.w - 1

Frac(n) == IF n.sg = 1 \/ n.c = 0 THEN n.c ELSE 100 - n.c

\* a < b and a <= b on numeric values
Less(a, b) ==
    LET x == AsNum(a)
        y == AsNum(b)
    IN  Floor(x) < Floor(y) \/ (Floor(x) = Floor(y) /\ Frac(x) < Frac(y))

LessEq(a, b) ==
    LET x == AsNum(a)
        y == AsNum(b)
    IN  Floor(x) < Floor(y) \/ (Floor(x) = Floor(y) /\ Frac(x) <= Frac(y))

-----------------------------------------------------------------------------
(* Formatting *)

Pad2(n) == IF n < 10 THEN "0" \o ToString(n) ELSE ToString(n)

Pad3(n) == IF n < 10 THEN "00" \o ToString(n)
           ELSE IF n < 100 THEN "0" \o ToString(n) ELSE ToString(n)

\* the "," of the format spec: digits in groups of three
RECURSIVE Grouped(_)
Grouped(w) == IF w < 1000 THEN ToString(w)
              ELSE Grouped(w \div 1000) \o "," \o Pad3(w % 1000)

\* f"{n:,.2f}"
Fixed2(v) ==
    LET n == AsNum(v)
    IN  (IF n.sg = -1 THEN "-" ELSE "") \o Grouped(n.w) \o "." \o Pad2(n.c)

\* str(v) and f"{v}" of a scalar
PyStr(v) ==
    CASE v.t = "none" -> "None"
      [] v.t = "str"  -> v.s
      [] v.t = "bool" -> IF v.b THEN "True" ELSE "False"
      [] v.t = "num"  ->
            (IF v.sg = -1 THEN "-" ELSE "") \o ToString(v.w)
                \o (IF v.c = 0 THEN ""
                    ELSE IF v.c % 10 = 0 THEN "." \o ToString(v.c \div 10)
                    ELSE "." \o Pad2(v.c))

fmt_usd(n) == IF IsNumber(n) THEN "$" \o Fixed2(n) ELSE PyStr(n)

\* the exception short_addr raises, "" when it raises none: len() of a truthy
\* number or bool.  Addresses are scalars: None, str, number or bool.
short_addr_raises(addr) ==
    IF Truthy(addr) /\ addr.t \in {"num", "bool"} THEN "TypeError" ELSE ""

\* the str short_addr returns when it raises nothing
short_addr(addr) ==
    IF ~Truthy(addr) THEN ""
    ELSE IF Len(addr.s) < 10 THEN addr.s
    ELSE SubSeq(addr.s, 1, 6) \o "..." \o SubSeq(addr.s, Len(addr.s) - 3, Len(addr.s))

\* "\n".join(lines)
RECURSIVE Join(_)
Join(lines) ==
    IF Len(lines) = 0 THEN ""
    ELSE IF Len(lines) = 1 THEN lines[1]
    ELSE lines[1] \o "\n" \o Join(Tail(lines))

\* datetime.utcnow().strftime('%Y-%m-%d %H:%M:%S') in the first minute of the epoch
Strftime(now) == "1970-01-01 00:00:" \o Pad2(now)

\* s.rstrip("/")
RECURSIVE RStripSlash(_)
RStripSlash(s) ==
    IF Len(s) > 0 /\ SubSeq(s, Len(s), Len(s)) = "/"
    THEN RStripSlash(SubSeq(s, 1, Len(s) - 1))
    ELSE s

-----------------------------------------------------------------------------
(* Module constants *)

Transfer(token, from, to, amount) ==
    Dict([token |-> token, from |-> from, to |-> to, amount |-> amount])

\* volume_24h_usd and market_cap_usd of the sample market (104_010_000_000 and
\* 454_450_000_000, read by market_cmd alone) are beyond TLC's integers and are
\* left out of the dict.
SAMPLE_OVERVIEW ==
    [market |->
        Dict([symbol |-> Str("ETH"),
              price_usd |-> Num(1, 3757, 84),
              price_change_24h_pct |-> Num(-1, 13, 22)]),
     exchange_flows |->
        Dict([total_inflow |-> IntNum(530276600),
              total_outflow |-> IntNum(663261947),
              net_flow |-> IntNum(-132985346),
              sentiment |-> Str("Strong Accumulation (Bullish)")]),
     stablecoin |->
        Dict([stablecoin_inflow_ratio_pct |-> Num(1, 100, 0),
              stablecoin_net_flow |-> IntNum(-20000000),
              mode |-> Str("Risk-Off -> Deploying")]),
     whale_transfers |->
        List(<<Transfer(Str("USDT"), Str("0xc0ba...1a09"), Str("0x28c6...1d60"),
                        Num(1, 1851370, 43)),
               Transfer(Str("USDT"), Str("0x17dc...403a"), Str("0xaa8b...3efb"),
                        Num(1, 39365167, 96))>>)]

\* the paths fetch_dashboard_overview gets, in its order
PathSeq == <<"/api/market", "/api/exchange_flows", "/api/stablecoin", "/api/whale_transfers">>

Paths == {PathSeq[i] : i \in 1..Len(PathSeq)}

-----------------------------------------------------------------------------
(* Upstream client *)

headers ==
    IF Truthy(API_KEY)
    THEN [Accept |-> "application/json", Authorization |-> "Bearer " \o API_KEY.s]
    ELSE [Accept |-> "application/json"]

\* try_get without the test of DASHBOARD_API_URL
try_get_ignores_missing_url(path) == upstream[path]

\* the JSON of the response, or None when the GET fails or no base URL is set
try_get(path) == IF ~Truthy(DASHBOARD_API_URL) THEN None ELSE upstream[path]

\* the requests.get call try_get makes for path
Request(path) == [url |-> RStripSlash(DASHBOARD_API_URL.s) \o path, headers |-> headers]

-----------------------------------------------------------------------------
(* Snapshot aggregator *)

\* the body of fetch_dashboard_overview on the four values try_get returned
Overview(market, flows, stable, whales) ==
    IF Truthy(market) /\ Truthy(flows) /\ Truthy(stable) /\ whales # None
    THEN [market |-> market,
          exchange_flows |-> flows,
          stablecoin |-> stable,
          whale_transfers |-> whales]
    ELSE [market |-> Or(market, SAMPLE_OVERVIEW.market),
          exchange_flows |-> Or(flows, SAMPLE_OVERVIEW.exchange_flows),
          stablecoin |-> Or(stable, SAMPLE_OVERVIEW.stablecoin),
          whale_transfers |-> Or(whales, SAMPLE_OVERVIEW.whale_transfers)]

\* the four values try_get returned, by section
Got(got) ==
    [market |-> got[1], exchange_flows |-> got[2], stablecoin |-> got[3],
     whale_transfers |-> got[4]]

\* what fetch_dashboard_overview returns once its four try_get have returned got
fetch_dashboard_overview(got) == Overview(got[1], got[2], got[3], got[4])

-----------------------------------------------------------------------------
(* Alert evaluation: check_and_send_alert, lines 215-234 *)

ACCUM_THRESHOLD == -50000000

DIST_THRESHOLD == 50000000

BIG_TX_THRESHOLD == 10000000

AccumPrefix == "Strong accumulation: Net Flow = "

DistPrefix == "Strong distribution: Net Flow = "

WhalePrefix == "Whale transfer: "

\* the two tests with < and > in place of <= and >=
FlowAlertsOpenBoundary(netf) ==
    IF IsNumber(netf)
    THEN (IF Less(netf, IntNum(ACCUM_THRESHOLD))
          THEN <<AccumPrefix \o fmt_usd(netf)>> ELSE <<>>)
         \o (IF Less(IntNum(DIST_THRESHOLD), netf)
             THEN <<DistPrefix \o fmt_usd(netf)>> ELSE <<>>)
    ELSE <<>>

\* the alerts of the two net-flow tests, for netf = f.get("net_flow", 0)
FlowAlerts(netf) ==
    IF IsNumber(netf)
    THEN (IF LessEq(netf, IntNum(ACCUM_THRESHOLD))
          THEN <<AccumPrefix \o fmt_usd(netf)>> ELSE <<>>)
         \o (IF LessEq(IntNum(DIST_THRESHOLD), netf)
             THEN <<DistPrefix \o fmt_usd(netf)>> ELSE <<>>)
    ELSE <<>>

\* the test of one transfer in the loop over whales
IsBigTransfer(t) ==
    LET amt == Get(t, "amount", IntNum(0))
    IN  IsNumber(amt) /\ LessEq(IntNum(BIG_TX_THRESHOLD), amt)

WhaleLine(t) ==
    WhalePrefix \o fmt_usd(Get(t, "amount", IntNum(0))) \o " "
        \o PyStr(Get(t, "token", None))
        \o " from " \o short_addr(Get(t, "from", None))
        \o " to " \o short_addr(Get(t, "to", None))

\* the loop over whales from its item ts[1] on, with the list alerts so far:
\* the list when the loop ends or raises, and the exception it raises ("": none)
RECURSIVE WhaleAlerts(_, _)
WhaleAlerts(ts, alerts) ==
    IF Len(ts) = 0 THEN [alerts |-> alerts, err |-> ""]
    ELSE LET t == Head(ts)
         IN  IF ~IsDict(t) THEN [alerts |-> alerts, err |-> "AttributeError"]
             ELSE IF ~IsBigTransfer(t) THEN WhaleAlerts(Tail(ts), alerts)
             ELSE IF short_addr_raises(Get(t, "from", None)) # ""
             THEN [alerts |-> alerts, err |-> short_addr_raises(Get(t, "from", None))]
             ELSE IF short_addr_raises(Get(t, "to", None)) # ""
             THEN [alerts |-> alerts, err |-> short_addr_raises(Get(t, "to", None))]
             ELSE WhaleAlerts(Tail(ts), Append(alerts, WhaleLine(t)))

\* lines 213-234: the list alerts when the evaluation ends or raises, and the
\* exception it raises ("": none).  `for t in whales` raises TypeError over a
\* number, a bool or None; over a str or a dict its first item is a character
\* or a key, a str, and t.get raises AttributeError; over an empty one it ends.
Alerts(ov) ==
    IF ~IsDict(ov.exchange_flows) THEN [alerts |-> <<>>, err |-> "AttributeError"]
    ELSE LET flow == FlowAlerts(Get(ov.exchange_flows, "net_flow", IntNum(0)))
             whales == ov.whale_transfers
         IN  CASE whales.t \in {"num", "bool", "none"} ->
                    [alerts |-> flow, err |-> "TypeError"]
               [] whales.t \in {"str", "dict"} ->
                    [alerts |-> flow,
                     err |-> IF Truthy(whales) THEN "AttributeError" ELSE ""]
               [] whales.t = "list" -> WhaleAlerts(whales.l, flow)

Digits == {"0", "1", "2", "3", "4", "5", "6", "7", "8", "9"}

\* the ASCII characters str.strip() removes that a string here can hold
Whitespace == {" ", "\t", "\n", "\r", "\f"}

RECURSIVE LStrip(_)
LStrip(s) ==
    IF Len(s) > 0 /\ SubSeq(s, 1, 1) \in Whitespace THEN LStrip(SubSeq(s, 2, Len(s)))
    ELSE s

RECURSIVE RStrip(_)
RStrip(s) ==
    IF Len(s) > 0 /\ SubSeq(s, Len(s), Len(s)) \in Whitespace
    THEN RStrip(SubSeq(s, 1, Len(s) - 1))
    ELSE s

\* the literal int(s) reads without the whitespace around it and its sign
Magnitude(s) ==
    LET body == RStrip(LStrip(s))
    IN  IF Len(body) > 0 /\ SubSeq(body, 1, 1) \in {"-", "+"}
        THEN SubSeq(body, 2, Len(body)) ELSE body

\* int(s) raises no ValueError: whitespace, an optional sign, then decimal
\* digits with single underscores between digits
IsIntLiteral(s) ==
    LET m == Magnitude(s)
        ch(i) == SubSeq(m, i, i)
    IN  /\ Len(m) > 0
        /\ ch(1) \in Digits
        /\ ch(Len(m)) \in Digits
        /\ \A i \in 1..Len(m) : ch(i) \in Digits \cup {"_"}
        /\ \A i \in 1..(Len(m) - 1) : ~(ch(i) = "_" /\ ch(i + 1) = "_")

DigitValue(ch) == CHOOSE d \in 0..9 : ToString(d) = ch

RECURSIVE ParseNat(_)
ParseNat(s) ==
    IF Len(s) = 0 THEN 0
    ELSE IF SubSeq(s, Len(s), Len(s)) = "_" THEN ParseNat(SubSeq(s, 1, Len(s) - 1))
    ELSE 10 * ParseNat(SubSeq(s, 1, Len(s) - 1)) + DigitValue(SubSeq(s, Len(s), Len(s)))

\* int(s) of a literal whose value is within 32 bits
ParseInt(s) ==
    IF SubSeq(LStrip(s), 1, 1) = "-" THEN -ParseNat(Magnitude(s)) ELSE ParseNat(Magnitude(s))

\* a send_message call for each alert line
DispatchPerLine(alerts) ==
    IF Len(alerts) = 0 THEN [sent |-> <<>>, err |-> ""]
    ELSE IF ~IsIntLiteral(ADMIN_CHAT_ID.s) THEN [sent |-> <<>>, err |-> "ValueError"]
    ELSE [sent |-> [i \in 1..Len(alerts) |->
                       [chat_id |-> ParseInt(ADMIN_CHAT_ID.s), text |-> alerts[i]]],
          err |-> ""]

\* the dispatch at lines 236-238: the send_message calls made, and the error raised
Dispatch(alerts) ==
    IF Len(alerts) = 0 THEN [sent |-> <<>>, err |-> ""]
    ELSE IF ~IsIntLiteral(ADMIN_CHAT_ID.s) THEN [sent |-> <<>>, err |-> "ValueError"]
    ELSE [sent |-> <<[chat_id |-> ParseInt(ADMIN_CHAT_ID.s), text |-> Join(alerts)]>>,
          err |-> ""]

-----------------------------------------------------------------------------
(* Insight derivation: insight_cmd *)

FlowOutLine == "Flows: Net outflows -> accumulation (bullish signal)."

FlowInLine == "Flows: Net inflows -> distribution / sell pressure."

FlowNeutralLine == "Flows: Neutral."

RiskOffLine == "Stablecoin: High inflow ratio -> risk-off (whales holding safety)."

DeployLine == "Stablecoin: Low ratio -> deploying into crypto (accumulation)."

MixedLine == "Stablecoin: Mixed / transitional state."

StrongAccumLine ==
    "Combined: Whales pulling assets and deploying stablecoins -> strong accumulation."

DivergenceLine == "Tokens leaving but stablecoins coming in - watch closely."

BearishLine == "Distribution + stablecoin build-up -> bearish posture."

HeaderPrefix == "Insight - ETH "

Zero == IntNum(0)

\* no header when the market has no price
HeaderLinesSkipsMissing(m) ==
    IF "price_usd" \in DOMAIN m.d
    THEN <<HeaderPrefix \o fmt_usd(m.d["price_usd"])>> ELSE <<>>

HeaderLines(m) == <<HeaderPrefix \o fmt_usd(Get(m, "price_usd", Str("N/A")))>>

FlowLines(netf) ==
    IF IsNumber(netf)
    THEN (IF Less(netf, Zero) THEN <<FlowOutLine>>
          ELSE IF Less(Zero, netf) THEN <<FlowInLine>>
          ELSE <<FlowNeutralLine>>)
    ELSE <<>>

\* the buckets with 70 and 30 in the middle one
StableLinesOpenBoundary(ratio) ==
    IF IsNumber(ratio)
    THEN (IF Less(IntNum(70), ratio) THEN <<RiskOffLine>>
          ELSE IF Less(ratio, IntNum(30)) THEN <<DeployLine>>
          ELSE <<MixedLine>>)
    ELSE <<>>

StableLines(ratio) ==
    IF IsNumber(ratio)
    THEN (IF LessEq(IntNum(70), ratio) THEN <<RiskOffLine>>
          ELSE IF LessEq(ratio, IntNum(30)) THEN <<DeployLine>>
          ELSE <<MixedLine>>)
    ELSE <<>>

\* the sign tests with zero counted as negative
CombinedLinesZeroAsNegative(netf, stable_net) ==
    IF IsNumber(netf) /\ IsNumber(stable_net)
    THEN (IF LessEq(netf, Zero) /\ LessEq(stable_net, Zero) THEN <<StrongAccumLine>>
          ELSE IF LessEq(netf, Zero) /\ Less(Zero, stable_net) THEN <<DivergenceLine>>
          ELSE IF Less(Zero, netf) /\ Less(Zero, stable_net) THEN <<BearishLine>>
          ELSE <<>>)
    ELSE <<>>

CombinedLines(netf, stable_net) ==
    IF IsNumber(netf) /\ IsNumber(stable_net)
    THEN (IF Less(netf, Zero) /\ Less(stable_net, Zero) THEN <<StrongAccumLine>>
          ELSE IF Less(netf, Zero) /\ Less(Zero, stable_net) THEN <<DivergenceLine>>
          ELSE IF Less(Zero, netf) /\ Less(Zero, stable_net) THEN <<BearishLine>>
          ELSE <<>>)
    ELSE <<>>

TimestampLine(now) == "\n_As of " \o Strftime(now) \o " UTC_"

\* the exception insight_cmd raises before it replies, "" when it raises none
InsightError(ov) ==
    IF ~IsDict(ov.exchange_flows) \/ ~IsDict(ov.stablecoin) \/ ~IsDict(ov.market)
    THEN "AttributeError" ELSE ""

\* the list lines of insight_cmd at the time now
InsightLines(ov, now) ==
    LET f == ov.exchange_flows
        s == ov.stablecoin
        m == ov.market
        netf == Get(f, "net_flow", None)
        ratio == Get(s, "stablecoin_inflow_ratio_pct", None)
        stable_net == Get(s, "stablecoin_net_flow", None)
    IN  HeaderLines(m) \o FlowLines(netf) \o StableLines(ratio)
            \o CombinedLines(netf, stable_net) \o <<TimestampLine(now)>>

-----------------------------------------------------------------------------
(* Bounds and input domains *)

MaxClock == 1

MaxWorkers == 2

MaxWhales == 2

Workers == 1..MaxWorkers

\* a key left out of a dict
Absent == [t |-> "absent"]

With(base, k, v) == IF v = Absent THEN base ELSE (k :> v) @@ base

FlowsWith(netf) == Dict(With([sentiment |-> Str("Neutral")], "net_flow", netf))

StableWith(ratio, stable_net) ==
    Dict(With(With([mode |-> Str("Mixed")], "stablecoin_inflow_ratio_pct", ratio),
              "stablecoin_net_flow", stable_net))

MarketWith(price) == Dict(With([symbol |-> Str("ETH")], "price_usd", price))

TransferFrom(from, to, amount) ==
    Dict(With(With(With([token |-> Str("USDC")], "from", from), "to", to),
              "amount", amount))

TransferWith(amount) ==
    TransferFrom(Str("0x28c6c06298d514db089934071355e5743bf21d60"), Str("0xdead"), amount)

Upstream(market, flows, stable, whales) ==
    [p \in Paths |->
        CASE p = "/api/market" -> market
          [] p = "/api/exchange_flows" -> flows
          [] p = "/api/stablecoin" -> stable
          [] p = "/api/whale_transfers" -> whales]

\* every outcome of each call: failed, empty, live; and a body that is no object
MarketOutcomes == {None, EmptyDict, MarketWith(Num(1, 2500, 50))}

FlowsOutcomes == {None, EmptyDict, FlowsWith(IntNum(10)), Str("maintenance")}

StableOutcomes == {None, EmptyDict, StableWith(IntNum(50), IntNum(-10))}

WhalesOutcomes ==
    {None, List(<<>>), List(<<TransferWith(IntNum(25000000))>>), Str("maintenance")}

UrlValues == {None, Str("https://api.example.com/")}

KeyValues == {None, Str("s3cret")}

\* ADMIN_CHAT_ID unset, empty, and texts int() accepts and rejects
AdminValues ==
    {None, Str(""), Str("-100123"), Str("@ops"), Str(" 42"), Str("42\n"), Str("1_000"),
     Str("\t-7 "), Str("+7"), Str("007"), Str("_1"), Str("1_"), Str("1__0"), Str("- 7"),
     Str(" "), Str("12a"), Str("1 000"), Str("-"), Str("4.2")}

\* net flows around the two alert thresholds and around zero
NetFlowValues ==
    {Absent, None, Str("n/a"), Bool(TRUE),
     IntNum(-60000000), Num(-1, 50000000, 1), IntNum(-50000000), Num(-1, 49999999, 99),
     IntNum(-49999999), IntNum(-10), Num(-1, 0, 1), IntNum(0), Num(1, 0, 1), IntNum(10),
     IntNum(49999999), Num(1, 49999999, 99), IntNum(50000000), Num(1, 50000000, 1),
     IntNum(60000000)}

AmountValues ==
    {Absent, Str("n/a"), Bool(TRUE), IntNum(9999999), Num(1, 9999999, 99),
     IntNum(10000000), Num(1, 10000000, 1), Num(1, 39365167, 96)}

RECURSIVE SeqsUpTo(_, _)
SeqsUpTo(S, n) ==
    IF n = 0 THEN {<<>>}
    ELSE LET shorter == SeqsUpTo(S, n - 1)
         IN  shorter \cup {Append(q, x) : q \in shorter, x \in S}

\* one more transfer than whales_cmd shows, every one of them big
LongTransfers == [i \in 1..11 |-> TransferWith(IntNum(10000000 + i))]

\* a transfer with nothing but an amount
BareTransfer == Dict([amount |-> IntNum(20000000)])

\* a big transfer whose source address is a number
NumericSource == TransferFrom(IntNum(12345), Str("0xdead"), IntNum(25000000))

\* transfers with addresses and tokens that are absent, null, empty or no str,
\* items that are no object, and bodies that are no list
OddWhales ==
    {List(<<BareTransfer, TransferWith(IntNum(5))>>),
     List(<<NumericSource>>),
     List(<<TransferWith(IntNum(25000000)),
            TransferFrom(Str("0xdead"), Bool(TRUE), IntNum(25000000))>>),
     List(<<TransferFrom(IntNum(12345), Bool(TRUE), IntNum(5))>>),
     List(<<TransferFrom(Absent, None, IntNum(25000000))>>),
     List(<<TransferFrom(IntNum(0), Str(""), IntNum(25000000))>>),
     List(<<TransferFrom(Bool(FALSE), Str("0x12345678"), IntNum(25000000))>>),
     List(<<Dict([token |-> IntNum(7), amount |-> Num(1, 25000000, 50)])>>),
     List(<<Str("0xdead")>>),
     List(<<TransferWith(IntNum(25000000)), None>>),
     Str("down"), Str(""), Dict([error |-> Str("down")]),
     Dict([b |-> IntNum(1), a |-> IntNum(2)]), Bool(TRUE), IntNum(0)}

WhaleLists ==
    {List(q) : q \in SeqsUpTo({TransferWith(a) : a \in AmountValues}, MaxWhales)}
        \cup {List(LongTransfers)} \cup OddWhales

RatioValues ==
    {Absent, None, Str("n/a"), IntNum(0), Num(1, 29, 99), IntNum(30), Num(1, 30, 1),
     IntNum(50), Num(1, 69, 99), IntNum(70), Num(1, 70, 1), IntNum(100)}

SignValues ==
    {Absent, Str("n/a"), Bool(TRUE), IntNum(-60000000), IntNum(-10), Num(-1, 0, 1),
     IntNum(0), Num(1, 0, 1), IntNum(10), IntNum(60000000)}

PriceValues == {Absent, None, Str("n/a"), Num(1, 3757, 84)}

LiveMarket == MarketWith(Num(1, 2500, 50))

LiveStable == StableWith(IntNum(50), IntNum(-10))

\* two answers of the upstream that differ in the stablecoin section and in the
\* transfers
Quiet == Upstream(LiveMarket, FlowsWith(IntNum(10)), LiveStable, List(<<>>))

Moving ==
    Upstream(LiveMarket, FlowsWith(IntNum(10)), StableWith(IntNum(80), IntNum(5)),
             List(<<TransferWith(IntNum(25000000))>>))

Worlds == {Quiet, Moving}

-----------------------------------------------------------------------------
(* State *)

NoCycle == [outcome |-> "none"]

NoReply == [outcome |-> "none"]

Idle == [pc |-> "idle"]

\* fetch_dashboard_overview waiting for the response to its i-th requests.get,
\* with what the earlier try_get returned and the requests made so far
Fetching(i, got, requests) == [pc |-> "get", i |-> i, got |-> got, requests |-> requests]

Running == {w \in Workers : jobs[w].pc # "idle"}

\* how many instances of the job the scheduler runs at a time.  add_job sets no
\* limit and the scheduler library is outside src/: the limit is the design's,
\* which has one cycle run to completion before the next tick is considered.
max_instances == 1

InitWith(urls, keys, admins, upstreams) ==
    /\ DASHBOARD_API_URL \in urls
    /\ API_KEY \in keys
    /\ ADMIN_CHAT_ID \in admins
    /\ upstream \in upstreams
    /\ started = FALSE
    /\ clock = 0
    /\ jobs = [w \in Workers |-> Idle]
    /\ handler = Idle
    /\ lastCycle = NoCycle
    /\ reply = NoReply
    /\ prevReply = NoReply

\* main(): the handlers are registered and the scheduler is started
main ==
    /\ ~started
    /\ started' = TRUE
    /\ UNCHANGED <<config, upstream, clock, jobs, handler, lastCycle, reply, prevReply>>

\* the scheduler may start an instance of the job (the design's serialized ticks)
CanStart == Cardinality(Running) < max_instances

\* the interval trigger fires: the scheduler hands an instance of the job to a
\* free worker of its executor; a tick while max_instances of it are running
\* starts nothing (the design's scheduling model, not read from src/)
Tick ==
    /\ started
    /\ CanStart
    /\ Running # Workers
    /\ LET w == CHOOSE x \in Workers \ Running : \A y \in Workers \ Running : x <= y
       IN  jobs' = [jobs EXCEPT ![w] = [pc |-> "start"]]
    /\ UNCHANGED <<config, started, upstream, clock, handler, lastCycle, reply, prevReply>>

\* the four try_get when no base URL is set: each returns at once, no request made
Unfetched == [i \in 1..Len(PathSeq) |-> try_get(PathSeq[i])]

\* check_and_send_alert from the return of its last try_get: lines 72-86 and 213-238
Cycle(got, requests) ==
    LET ov == fetch_dashboard_overview(got)
        ev == Alerts(ov)
        out == IF ev.err = "" THEN Dispatch(ev.alerts) ELSE [sent |-> <<>>, err |-> ev.err]
    IN  [outcome |-> "ran", got |-> Got(got), requests |-> requests, ov |-> ov,
         evaluated |-> ev.err = "", alerts |-> ev.alerts,
         sent |-> out.sent, err |-> out.err]

\* check_and_send_alert up to its first requests.get: return without
\* ADMIN_CHAT_ID; without a base URL nothing waits and the cycle runs to its end
JobStart(w) ==
    /\ jobs[w].pc = "start"
    /\ IF ~Truthy(ADMIN_CHAT_ID)
       THEN /\ jobs' = [jobs EXCEPT ![w] = Idle]
            /\ lastCycle' = [outcome |-> "skipped"]
       ELSE IF ~Truthy(DASHBOARD_API_URL)
       THEN /\ jobs' = [jobs EXCEPT ![w] = Idle]
            /\ lastCycle' = Cycle(Unfetched, <<>>)
       ELSE /\ jobs' = [jobs EXCEPT ![w] = Fetching(1, <<>>, <<Request(PathSeq[1])>>)]
            /\ UNCHANGED lastCycle
    /\ UNCHANGED <<config, started, upstream, clock, handler, reply, prevReply>>

\* a requests.get of the job returns what the upstream answers now: the next
\* request goes out, or after the last the cycle evaluates and dispatches
JobGet(w) ==
    /\ jobs[w].pc = "get"
    /\ LET i == jobs[w].i
           got == Append(jobs[w].got, try_get(PathSeq[i]))
       IN  IF i < Len(PathSeq)
           THEN /\ jobs' = [jobs EXCEPT ![w] =
                               Fetching(i + 1, got,
                                        Append(jobs[w].requests, Request(PathSeq[i + 1])))]
                /\ UNCHANGED lastCycle
           ELSE /\ jobs' = [jobs EXCEPT ![w] = Idle]
                /\ lastCycle' = Cycle(got, jobs[w].requests)
    /\ UNCHANGED <<config, started, upstream, clock, handler, reply, prevReply>>

check_and_send_alert == \E w \in Workers : JobStart(w) \/ JobGet(w)

\* insight_cmd from the return of its last try_get to the call of reply_text
Insight(got, requests) ==
    LET ov == fetch_dashboard_overview(got)
        raised == InsightError(ov)
        lines == IF raised = "" THEN InsightLines(ov, clock) ELSE <<>>
    IN  [outcome |-> "ran", got |-> Got(got), requests |-> requests, ov |-> ov,
         at |-> clock, lines |-> lines,
         sent |-> IF raised = "" THEN <<Join(lines)>> ELSE <<>>,
         err |-> raised]

\* the handler calls reply_text and awaits it, or ends in the exception
Replies(r) ==
    /\ reply' = r
    /\ prevReply' = reply
    /\ handler' = IF r.err = "" THEN [pc |-> "reply"] ELSE Idle

\* /insight arrives: insight_cmd up to its first requests.get
InsightStart ==
    /\ started
    /\ handler = Idle
    /\ IF ~Truthy(DASHBOARD_API_URL)
       THEN Replies(Insight(Unfetched, <<>>))
       ELSE /\ handler' = Fetching(1, <<>>, <<Request(PathSeq[1])>>)
            /\ UNCHANGED <<reply, prevReply>>
    /\ UNCHANGED <<config, started, upstream, clock, jobs, lastCycle>>

\* a requests.get of the handler returns what the upstream answers now
InsightGet ==
    /\ handler.pc = "get"
    /\ LET i == handler.i
           got == Append(handler.got, try_get(PathSeq[i]))
       IN  IF i < Len(PathSeq)
           THEN /\ handler' = Fetching(i + 1, got,
                                       Append(handler.requests, Request(PathSeq[i + 1])))
                /\ UNCHANGED <<reply, prevReply>>
           ELSE Replies(Insight(got, handler.requests))
    /\ UNCHANGED <<config, started, upstream, clock, jobs, lastCycle>>

\* the await of reply_text returns and the handler ends
InsightDone ==
    /\ handler.pc = "reply"
    /\ handler' = Idle
    /\ UNCHANGED <<config, started, upstream, clock, jobs, lastCycle, reply, prevReply>>

insight_cmd == InsightStart \/ InsightGet \/ InsightDone

\* time passes
ClockTick ==
    /\ clock < MaxClock
    /\ clock' = clock + 1
    /\ UNCHANGED <<config, started, upstream, jobs, handler, lastCycle, reply, prevReply>>

\* the upstream starts to answer differently
UpstreamChange ==
    /\ upstream' \in Worlds \ {upstream}
    /\ UNCHANGED <<config, started, clock, jobs, handler, lastCycle, reply, prevReply>>

-----------------------------------------------------------------------------
(* Specifications *)

\* the program, with commands and cycles interleaved while the upstream changes
\* and time passes
Init ==
    InitWith({Str("https://api.example.com")}, {None}, {None, Str("-100123")}, Worlds)

Next ==
    main \/ Tick \/ check_and_send_alert \/ insight_cmd \/ UpstreamChange \/ ClockTick

Spec == Init /\ [][Next]_vars

\* the cycle over every combination of outcomes of the four calls
InitSnapshot ==
    InitWith(UrlValues, KeyValues, {Str("-100123")},
             {Upstream(m, f, s, w) : m \in MarketOutcomes, f \in FlowsOutcomes,
                                     s \in StableOutcomes, w \in WhalesOutcomes})

NextSnapshot == main \/ Tick \/ check_and_send_alert

SpecSnapshot == InitSnapshot /\ [][NextSnapshot]_vars

\* the cycle over net flows and transfer lists around the thresholds
InitAlerts ==
    InitWith({Str("https://api.example.com")}, {None}, {Str("-100123")},
             {Upstream(LiveMarket, FlowsWith(n), LiveStable, List(<<>>)) :
                  n \in NetFlowValues}
             \cup {Upstream(LiveMarket, FlowsWith(n), LiveStable, w) :
                      n \in {IntNum(10), IntNum(-60000000)}, w \in WhaleLists})

NextAlerts == main \/ Tick \/ check_and_send_alert

SpecAlerts == InitAlerts /\ [][NextAlerts]_vars

\* the cycle over ADMIN_CHAT_ID values, with no alert, one, two, and an exception
InitDispatch ==
    InitWith({Str("https://api.example.com")}, {None}, AdminValues,
             {Upstream(LiveMarket, FlowsWith(n), LiveStable, w) :
                  n \in {IntNum(10), IntNum(-60000000)},
                  w \in {List(<<>>), List(<<TransferWith(IntNum(25000000))>>),
                         List(<<NumericSource>>)}})

NextDispatch == main \/ Tick \/ check_and_send_alert

SpecDispatch == InitDispatch /\ [][NextDispatch]_vars

\* insight_cmd over net flows, ratios and prices, present, absent and not numbers
InitInsight ==
    InitWith({Str("https://api.example.com")}, {None}, {None},
             {Upstream(LiveMarket, FlowsWith(n), StableWith(IntNum(50), sn), List(<<>>)) :
                  n \in SignValues, sn \in SignValues}
             \cup {Upstream(LiveMarket, FlowsWith(IntNum(10)), StableWith(r, IntNum(-10)),
                            List(<<>>)) : r \in RatioValues}
             \cup {Upstream(MarketWith(p), FlowsWith(n), StableWith(r, sn), List(<<>>)) :
                      p \in PriceValues, n \in {Absent, Str("n/a"), IntNum(10)},
                      r \in {Absent, None, IntNum(50)},
                      sn \in {Absent, Str("n/a"), IntNum(10)}}
             \cup {Upstream(LiveMarket, Str("maintenance"), LiveStable, List(<<>>))})

NextInsight == main \/ insight_cmd \/ ClockTick

SpecInsight == InitInsight /\ [][NextInsight]_vars

-----------------------------------------------------------------------------
(* Properties *)

HasPrefix(line, prefix) ==
    Len(line) >= Len(prefix) /\ SubSeq(line, 1, Len(prefix)) = prefix

\* the positions of the lines that start with prefix
LinesWith(lines, prefix) == {i \in 1..Len(lines) : HasPrefix(lines[i], prefix)}

Sections == {"market", "exchange_flows", "stablecoin", "whale_transfers"}

\* the finished fetches the state records: what try_get returned and the snapshot
Snapshots ==
    {[got |-> r.got, ov |-> r.ov] : r \in {x \in {lastCycle, reply} : x.outcome = "ran"}}

AllFailed(got) == \A k \in Sections : got[k] = None

\* the value at key k, Absent when the dict has no such key
Field(d, k) == Get(d, k, Absent)

\* a number of the model read by its sign, whole part and hundredths alone
IsPlainNumber(v) == v.t = "num"

AtLeast(v, n) == v.t = "num" /\ v.sg = 1 /\ v.w >= n

AtMostMinus(v, n) == v.t = "num" /\ v.sg = -1 /\ v.w >= n

Negative(v) == v.t = "num" /\ v.sg = -1 /\ (v.w > 0 \/ v.c > 0)

Positive(v) ==
    \/ v.t = "num" /\ v.sg = 1 /\ (v.w > 0 \/ v.c > 0)
    \/ v.t = "bool" /\ v.b

\* C1: every section of a snapshot is decided by its own call alone: it is the
\* live value when that call returned non-empty data, the sample section when
\* that call failed, and it is what it would be had any other call failed.
C1_SectionsIndependent ==
    \A snap \in Snapshots : \A k \in Sections :
        /\ Truthy(snap.got[k]) => snap.ov[k] = snap.got[k]
        /\ snap.got[k] = None => snap.ov[k] = SAMPLE_OVERVIEW[k]
        /\ \A j \in Sections \ {k} :
              LET g == [snap.got EXCEPT ![j] = None]
              IN  Overview(g.market, g.exchange_flows, g.stablecoin,
                           g.whale_transfers)[k] = snap.ov[k]

\* C2: when the whale_transfers call returns an empty list the snapshot's
\* whale_transfers section is empty, whatever the other three calls did; the
\* section is the sample transfers only when the call failed.
C2_EmptyWhalesStayEmpty ==
    \A snap \in Snapshots :
        /\ snap.got.whale_transfers = List(<<>>) => snap.ov.whale_transfers = List(<<>>)
        /\ snap.ov.whale_transfers = SAMPLE_OVERVIEW.whale_transfers
              => snap.got.whale_transfers = None

\* the net flow the last cycle evaluated
CycleNetFlow == Field(lastCycle.ov.exchange_flows, "net_flow")

\* the last cycle ran its evaluation to the end, with no exception
Evaluated == lastCycle.outcome = "ran" /\ lastCycle.evaluated

\* the last cycle ran the two net-flow tests
FlowsEvaluated == lastCycle.outcome = "ran" /\ IsDict(lastCycle.ov.exchange_flows)

\* C3: a numeric net flow n gives the accumulation alert exactly when
\* n <= -50,000,000 and the distribution alert exactly when n >= 50,000,000,
\* never both; -50,000,000 fires and -49,999,999 does not; a missing or
\* non-numeric net flow gives no flow alert.
C3_FlowAlertThresholds ==
    FlowsEvaluated =>
        LET n == CycleNetFlow
            accum == LinesWith(lastCycle.alerts, AccumPrefix)
            dist == LinesWith(lastCycle.alerts, DistPrefix)
        IN  /\ Cardinality(accum) = IF AtMostMinus(n, 50000000) THEN 1 ELSE 0
            /\ Cardinality(dist) = IF AtLeast(n, 50000000) THEN 1 ELSE 0
            /\ accum = {} \/ dist = {}
            /\ n = IntNum(-50000000) => accum = {1}
            /\ n = IntNum(-49999999) => accum = {} /\ dist = {}
            /\ ~IsPlainNumber(n) => accum = {} /\ dist = {}

C3_Witness ==
    /\ FlowsEvaluated
    /\ CycleNetFlow = IntNum(-50000000)
    /\ lastCycle.alerts[1] = "Strong accumulation: Net Flow = $-50,000,000.00"

\* the positions of the transfers whose amount is a number >= 10,000,000
BigPositions(ts) ==
    {i \in 1..Len(ts) : AtLeast(Field(ts[i], "amount"), 10000000)}

\* the last cycle ran the loop over a list of transfer objects
TransfersEvaluated ==
    /\ FlowsEvaluated
    /\ IsList(lastCycle.ov.whale_transfers)
    /\ \A i \in 1..Len(lastCycle.ov.whale_transfers.l) :
          IsDict(lastCycle.ov.whale_transfers.l[i])

\* C4: the alert list holds one whale line for each transfer whose amount is a
\* number >= 10,000,000 and none for any other; the whale lines come after the
\* flow alerts, in the order of the transfers, however many there are.
C4_WhaleAlertPerBigTransfer ==
    TransfersEvaluated =>
        LET ts == lastCycle.ov.whale_transfers.l
            alerts == lastCycle.alerts
            big == BigPositions(ts)
            whale == LinesWith(alerts, WhalePrefix)
            flow == Len(alerts) - Cardinality(big)
        IN  /\ Cardinality(whale) = Cardinality(big)
            /\ flow >= 0
            /\ whale = {j \in 1..Len(alerts) : j > flow}
            /\ \A i \in big :
                  HasPrefix(alerts[flow + Cardinality({b \in big : b <= i})],
                            WhalePrefix \o fmt_usd(Field(ts[i], "amount")) \o " ")
            /\ ts = LongTransfers => Cardinality(whale) = 11

\* what int() returns for the texts of AdminValues it accepts: whitespace around
\* the literal, a sign, underscores between digits, leading zeros; for every
\* other text it raises ValueError
IntOf ==
    ("-100123" :> -100123) @@ (" 42" :> 42) @@ ("42\n" :> 42) @@ ("1_000" :> 1000)
        @@ ("\t-7 " :> -7) @@ ("+7" :> 7) @@ ("007" :> 7)

\* C5 as stated: a cycle with the operator channel configured calls
\* send_message exactly once when its alert list is not empty, with the alert
\* lines joined into one text, and not at all when the list is empty.
C5_SendOncePerCycle ==
    Evaluated =>
        /\ Len(lastCycle.sent) <= 1
        /\ lastCycle.alerts = <<>> => lastCycle.sent = <<>>
        /\ lastCycle.alerts # <<>> =>
              /\ Len(lastCycle.sent) = 1
              /\ lastCycle.sent[1].text = Join(lastCycle.alerts)

\* C5 amended: the one call is made when ADMIN_CHAT_ID is a text int() accepts,
\* to the chat of that number; with any other non-empty ADMIN_CHAT_ID a
\* non-empty alert list ends the cycle in int()'s ValueError with no call made.
C5_SendOncePerCycleIntegerId ==
    Evaluated =>
        /\ Len(lastCycle.sent) <= 1
        /\ lastCycle.alerts = <<>> => lastCycle.sent = <<>> /\ lastCycle.err = ""
        /\ (lastCycle.alerts # <<>> /\ ADMIN_CHAT_ID.s \in DOMAIN IntOf) =>
              /\ lastCycle.sent = <<[chat_id |-> IntOf[ADMIN_CHAT_ID.s],
                                     text |-> Join(lastCycle.alerts)]>>
              /\ lastCycle.err = ""
        /\ (lastCycle.alerts # <<>> /\ ADMIN_CHAT_ID.s \notin DOMAIN IntOf) =>
              lastCycle.sent = <<>> /\ lastCycle.err = "ValueError"

C5_Witness ==
    /\ Evaluated
    /\ ADMIN_CHAT_ID = Str("1_000")
    /\ Len(lastCycle.alerts) = 2
    /\ Len(lastCycle.sent) = 1
    /\ lastCycle.sent[1].chat_id = 1000

\* C6: when all four calls fail (without a base URL they fail with no request
\* made) the snapshot is SAMPLE_OVERVIEW and the alerts are exactly the
\* accumulation alert for -132,985,346 and then the whale alert for the
\* 39,365,167.96 transfer.
C6_TotalDegradation ==
    \A r \in {x \in {lastCycle, reply} : x.outcome = "ran"} :
        /\ ~Truthy(DASHBOARD_API_URL) => AllFailed(r.got) /\ r.requests = <<>>
        /\ Truthy(DASHBOARD_API_URL) => Len(r.requests) = 4
        /\ AllFailed(r.got) =>
              /\ r.ov = SAMPLE_OVERVIEW
              /\ r = lastCycle =>
                    /\ lastCycle.evaluated
                    /\ lastCycle.alerts =
                          <<"Strong accumulation: Net Flow = $-132,985,346.00",
                            "Whale transfer: $39,365,167.96 USDT from 0x17dc...403a to 0xaa8b...3efb">>

C6_Witness ==
    /\ lastCycle.outcome = "ran"
    /\ ~Truthy(DASHBOARD_API_URL)
    /\ \A p \in Paths : Truthy(upstream[p])
    /\ lastCycle.ov = SAMPLE_OVERVIEW
    /\ Len(lastCycle.alerts) = 2

Replied == reply.outcome = "ran" /\ reply.err = ""

CombinedSet == {StrongAccumLine, DivergenceLine, BearishLine}

FlowSet == {FlowOutLine, FlowInLine, FlowNeutralLine}

StableSet == {RiskOffLine, DeployLine, MixedLine}

\* the lines of the reply that are in set S, in order
LinesIn(lines, S) == SelectSeq(lines, LAMBDA l : l \in S)

\* C7: the combined line is decided by the signs of net flow f and stablecoin
\* net flow s when both pass the numeric test: f<0 and s<0 strong accumulation,
\* f<0<s divergence warning, f>0 and s>0 bearish, no line for the six other
\* sign combinations; never more than one line, none when either is no number.
\* (The numeric test is isinstance(int, float): True and False count as 1 and 0.)
C7_CombinedBySigns ==
    Replied =>
        LET f == Field(reply.ov.exchange_flows, "net_flow")
            s == Field(reply.ov.stablecoin, "stablecoin_net_flow")
            combined == LinesIn(reply.lines, CombinedSet)
        IN  combined =
                IF Negative(f) /\ Negative(s) THEN <<StrongAccumLine>>
                ELSE IF Negative(f) /\ Positive(s) THEN <<DivergenceLine>>
                ELSE IF Positive(f) /\ Positive(s) THEN <<BearishLine>>
                ELSE <<>>

C7_Witness ==
    /\ Replied
    /\ Field(reply.ov.exchange_flows, "net_flow") = IntNum(10)
    /\ Field(reply.ov.stablecoin, "stablecoin_net_flow") = IntNum(-10)
    /\ LinesIn(reply.lines, CombinedSet) = <<>>
    /\ FlowInLine \in {reply.lines[i] : i \in 1..Len(reply.lines)}

\* C8: a numeric inflow ratio r gives exactly one stablecoin line: risk-off
\* when r >= 70, accumulation when r <= 30, mixed when 30 < r < 70.
C8_RatioBuckets ==
    Replied =>
        LET r == Field(reply.ov.stablecoin, "stablecoin_inflow_ratio_pct")
            posture == LinesIn(reply.lines, StableSet)
        IN  IsPlainNumber(r) =>
                posture =
                    IF AtLeast(r, 70) THEN <<RiskOffLine>>
                    ELSE IF r.sg = -1 \/ r.w < 30 \/ (r.w = 30 /\ r.c = 0)
                         THEN <<DeployLine>>
                    ELSE <<MixedLine>>

C8_Witness ==
    /\ Replied
    /\ Field(reply.ov.stablecoin, "stablecoin_inflow_ratio_pct") = IntNum(70)
    /\ LinesIn(reply.lines, StableSet) = <<RiskOffLine>>

\* the place of a line in the fixed order: header, flow, stablecoin, combined, timestamp
Rank(line) ==
    CASE HasPrefix(line, HeaderPrefix) -> 1
      [] line \in FlowSet -> 2
      [] line \in StableSet -> 3
      [] line \in CombinedSet -> 4
      [] HasPrefix(line, "\n_As of ") -> 5
      [] OTHER -> 0

\* a reply of insight_cmd over a snapshot whose sections are dicts raises
\* nothing, starts with the header, ends with the timestamp, keeps the fixed
\* order, and leaves out exactly the lines whose field is absent or no number
WellFormedReply(r) ==
    (IsDict(r.ov.market) /\ IsDict(r.ov.exchange_flows) /\ IsDict(r.ov.stablecoin)) =>
        LET lines == r.lines
            n == Len(lines)
            netf == Field(r.ov.exchange_flows, "net_flow")
            ratio == Field(r.ov.stablecoin, "stablecoin_inflow_ratio_pct")
            stable_net == Field(r.ov.stablecoin, "stablecoin_net_flow")
            price == Field(r.ov.market, "price_usd")
        IN  /\ r.err = ""
            /\ n >= 2
            /\ Rank(lines[1]) = 1
            /\ Rank(lines[n]) = 5
            /\ \A i \in 1..(n - 1) : Rank(lines[i]) < Rank(lines[i + 1])
            /\ price = Absent => lines[1] = "Insight - ETH N/A"
            /\ Len(LinesIn(lines, FlowSet)) = IF netf.t \in {"num", "bool"} THEN 1 ELSE 0
            /\ Len(LinesIn(lines, StableSet)) = IF ratio.t \in {"num", "bool"} THEN 1 ELSE 0
            /\ (netf.t \notin {"num", "bool"} \/ stable_net.t \notin {"num", "bool"})
                  => LinesIn(lines, CombinedSet) = <<>>
            /\ r.sent = <<Join(lines)>>

\* the last two commands were both replied to
BothReplied ==
    /\ reply.outcome = "ran" /\ reply.err = ""
    /\ prevReply.outcome = "ran" /\ prevReply.err = ""

\* C9 as stated: insight_cmd is total and ordered as above, and two derivations
\* over the identical snapshot yield the identical output sequence.
C9_InsightTotalDeterministic ==
    /\ reply.outcome = "ran" => WellFormedReply(reply)
    /\ (BothReplied /\ reply.ov = prevReply.ov) => reply.lines = prevReply.lines

\* C9 amended: two derivations over the identical snapshot yield the identical
\* lines up to the trailing timestamp line, which is the UTC time of the call;
\* the whole output is identical when the two calls read the same clock.
C9_InsightTotalUpToTimestamp ==
    /\ reply.outcome = "ran" => WellFormedReply(reply)
    /\ (BothReplied /\ reply.ov = prevReply.ov) =>
          /\ Len(reply.lines) = Len(prevReply.lines)
          /\ \A i \in 1..(Len(reply.lines) - 1) : reply.lines[i] = prevReply.lines[i]
          /\ reply.at = prevReply.at => reply.lines = prevReply.lines
          /\ reply.at # prevReply.at => reply.lines # prevReply.lines

C9_Witness ==
    /\ BothReplied
    /\ reply.at # prevReply.at
    /\ Field(reply.ov.exchange_flows, "net_flow") = Absent
    /\ Field(reply.ov.stablecoin, "stablecoin_inflow_ratio_pct") = Absent
    /\ Field(reply.ov.market, "price_usd") = Absent
    /\ reply.lines = <<"Insight - ETH N/A", "\n_As of 1970-01-01 00:00:01 UTC_">>

=============================================================================
